---- MODULE Spec2Model ----
(***************************************************************************)
(* Model of the pubmed package of 8o8/articles: the paginated search      *)
(* (Search.Query, QueryResultTotal, QueryResultSet, NumSets) and the       *)
(* response decoders (ResultsCount, ResultsSetIDs).                        *)
(*                                                                         *)
(* Strings that the code parses are sequences of one-character strings.    *)
(* A Go error is the chain of messages errors.Wrap built, outermost first; *)
(* the nil error is the empty chain.  A Go []string is a sequence; the nil *)
(* slice is the empty sequence (both have len 0).                          *)
(***************************************************************************)
EXTENDS Integers, Sequences, FiniteSets, TLC

\* ---------------------------------------------------------------- bounds
MaxTotal == 3
MaxPageSize == 2
MaxCalls == 2
MaxFnTotal == 24
MaxFnPageSize == 7
MaxIDs == 3
MaxResultCount == 1003

\* ------------------------------------------------------- program constants
defaultBackDays == 7
defaultMaxSetSize == 1000
batchSize == 500

\* The Search (BackDays, Term, Result.Total, Result.MaxSetSize, Result.Sets),
\* the position of the caller inside Query (pc, c, i), and the observation
\* of the run: the operation called last (op), what it returned (ret), the
\* requests it sent (reqs), what the service answered (resps), the number of operations
\* called so far (calls) and whether a count query has succeeded (countKnown).
\* Count is the Search.Count of pubmed.go, whose SetCount ends the process
\* on a failure (exited).  ResultCount, QueryKey and WebEnv are the fields
\* StoreResults fills, and ResultCount is what the batch loop of main runs to.
VARIABLES BackDays, Term, Total, MaxSetSize, Sets,
          pc, c, i, op, ret, reqs, resps, calls, countKnown,
          Count, exited, ResultCount, QueryKey, WebEnv

vars == <<BackDays, Term, Total, MaxSetSize, Sets,
          pc, c, i, op, ret, reqs, resps, calls, countKnown,
          Count, exited, ResultCount, QueryKey, WebEnv>>

\* The fields of the Search of the revision that keeps the search on the
\* server (StoreResults): ResultCount, QueryKey, WebEnv.
stored == <<ResultCount, QueryKey, WebEnv>>

\* The state of the other revisions of the package.
legacy == <<Count, exited, ResultCount, QueryKey, WebEnv>>

\* ------------------------------------------------------------------ errors
NilErr == <<>>

Wrap(err, msg) == <<msg>> \o err

\* --------------------------------------------------------------- strconv
Digits == {"0", "1", "2", "3", "4", "5", "6", "7", "8", "9"}

DigitVal(ch) ==
    CASE ch = "0" -> 0 [] ch = "1" -> 1 [] ch = "2" -> 2 [] ch = "3" -> 3
      [] ch = "4" -> 4 [] ch = "5" -> 5 [] ch = "6" -> 6 [] ch = "7" -> 7
      [] ch = "8" -> 8 [] ch = "9" -> 9

RECURSIVE DigitsVal(_, _)
DigitsVal(s, acc) ==
    IF s = <<>> THEN acc ELSE DigitsVal(Tail(s), acc * 10 + DigitVal(Head(s)))

\* strconv.Atoi: an optional sign, then one or more decimal digits.
Atoi(s) ==
    LET body == IF s # <<>> /\ Head(s) \in {"+", "-"} THEN Tail(s) ELSE s
        neg  == s # <<>> /\ Head(s) = "-"
    IN  IF body = <<>> \/ \E k \in 1..Len(body) : body[k] \notin Digits
        THEN [val |-> 0, err |-> <<"strconv.Atoi: invalid syntax">>]
        ELSE [val |-> IF neg THEN 0 - DigitsVal(body, 0) ELSE DigitsVal(body, 0),
              err |-> NilErr]

\* strconv.Itoa, used to write the count fields the service sends.
RECURSIVE Itoa(_)
Itoa(n) ==
    LET d == CHOOSE ch \in Digits : DigitVal(ch) = n % 10
    IN  IF n < 10 THEN <<d>> ELSE Append(Itoa(n \div 10), d)


\* ---------------------------------------------------------------- payloads
\* A response body.  shape "garbage": not JSON; "mismatch": JSON in which
\* esearchresult, count or idlist has another JSON type than the decoder's
\* struct; "ok": JSON the struct accepts, with or without each key.
IDLists == {<<>>, <<"b", "a">>}

Garbage ==
    [shape |-> "garbage", hasResult |-> FALSE, hasCount |-> FALSE,
     count |-> <<>>, hasIDList |-> FALSE, idlist |-> <<>>]

Mismatch ==
    [shape |-> "mismatch", hasResult |-> TRUE, hasCount |-> FALSE,
     count |-> <<>>, hasIDList |-> FALSE, idlist |-> <<>>]

NoWrapper ==
    [shape |-> "ok", hasResult |-> FALSE, hasCount |-> FALSE,
     count |-> <<>>, hasIDList |-> FALSE, idlist |-> <<>>]

EmptyResult ==
    [shape |-> "ok", hasResult |-> TRUE, hasCount |-> FALSE,
     count |-> <<>>, hasIDList |-> FALSE, idlist |-> <<>>]

CountBody(s) ==
    [shape |-> "ok", hasResult |-> TRUE, hasCount |-> TRUE,
     count |-> s, hasIDList |-> FALSE, idlist |-> <<>>]

IDListBody(l) ==
    [shape |-> "ok", hasResult |-> TRUE, hasCount |-> FALSE,
     count |-> <<>>, hasIDList |-> TRUE, idlist |-> l]

CountFields ==
    {Itoa(n) : n \in 0..MaxTotal}
      \cup {<<>>, <<"x">>, <<"1", "x">>, <<"-">>, <<"-", "1">>, <<"+", "2">>, <<"0", "2">>}

CountBodies == {Garbage, Mismatch, NoWrapper, EmptyResult} \cup {CountBody(s) : s \in CountFields}

PageBodies == {Garbage, Mismatch, NoWrapper, EmptyResult} \cup {IDListBody(l) : l \in IDLists}

\* What a fetch can come to: the GET fails, reading the body fails, or a body.
Outcomes(bodies) ==
    {[net |-> "getfail", body |-> Garbage], [net |-> "readfail", body |-> Garbage]}
      \cup {[net |-> "ok", body |-> b] : b \in bodies}

\* ----------------------------------------------------------------- decoders
\* json.Unmarshal into struct{Result struct{Count string; IDList []string}}
Unmarshal(b) ==
    IF b.shape # "ok"
    THEN [err |-> <<"json">>, Count |-> <<>>, IDList |-> <<>>]
    ELSE [err |-> NilErr,
          Count |-> IF b.hasResult /\ b.hasCount THEN b.count ELSE <<>>,
          IDList |-> IF b.hasResult /\ b.hasIDList THEN b.idlist ELSE <<>>]

ResultsCountZeroIsError(responseBody) ==
    LET r == Unmarshal(responseBody)
        a == Atoi(r.Count)
    IN  IF r.err # NilErr THEN [val |-> 0, err |-> Wrap(r.err, "Unmarshal")]
        ELSE IF a.err # NilErr \/ a.val = 0 THEN [val |-> 0, err |-> Wrap(a.err, "Atoi")]
        ELSE [val |-> a.val, err |-> NilErr]

ResultsCountSentinel(responseBody) ==
    LET r == Unmarshal(responseBody)
        a == Atoi(r.Count)
    IN  IF r.err # NilErr THEN [val |-> 0 - 1, err |-> Wrap(r.err, "Unmarshal")]
        ELSE IF a.err # NilErr THEN [val |-> 0 - 1, err |-> Wrap(a.err, "Atoi")]
        ELSE [val |-> a.val, err |-> NilErr]

ResultsCount(responseBody) ==
    LET r == Unmarshal(responseBody)
        a == Atoi(r.Count)
    IN  IF r.err # NilErr THEN [val |-> 0, err |-> Wrap(r.err, "Unmarshal")]
        ELSE IF a.err # NilErr THEN [val |-> 0, err |-> Wrap(a.err, "Atoi")]
        ELSE [val |-> a.val, err |-> NilErr]

Reverse(l) == [k \in 1..Len(l) |-> l[Len(l) + 1 - k]]

ResultsSetIDsReversed(responseBody) ==
    LET r == Unmarshal(responseBody)
    IN  IF r.err # NilErr THEN [val |-> <<>>, err |-> Wrap(r.err, "Unmarshal")]
        ELSE [val |-> Reverse(r.IDList), err |-> NilErr]

ResultsSetIDs(responseBody) ==
    LET r == Unmarshal(responseBody)
    IN  IF r.err # NilErr THEN [val |-> <<>>, err |-> Wrap(r.err, "Unmarshal")]
        ELSE [val |-> r.IDList, err |-> NilErr]

\* ------------------------------------------------------------------ NumSets
\* math.Ceil of the quotient of two integers.  float64 holds every integer
\* below 2^53 exactly and the division is correctly rounded, so for the
\* operands of this model the float quotient has the same ceiling as the
\* rational one.
Ceil(num, den) ==
    IF num % den = 0 THEN num \div den ELSE (num \div den) + 1

NumSetsExtraSet(total, maxSetSize) == (total \div maxSetSize) + 1

NumSetsAtLeastOne(total, maxSetSize) ==
    IF Ceil(total, maxSetSize) < 1 THEN 1 ELSE Ceil(total, maxSetSize)

NumSets(total, maxSetSize) == Ceil(total, maxSetSize)

\* ---------------------------------------------------------------- transport
\* The URL each operation builds, as its query parameters.
CountURL(backDays, term) ==
    [rettype |-> "count", reldate |-> backDays, term |-> term, retstart |-> 0, retmax |-> 0]

StartIndexNextSet(setIndex, maxSetSize) == (setIndex + 1) * maxSetSize

StartIndex(setIndex, maxSetSize) == setIndex * maxSetSize

SetURL(backDays, term, setIndex, maxSetSize) ==
    [rettype |-> "", reldate |-> backDays, term |-> term,
     retstart |-> StartIndex(setIndex, maxSetSize), retmax |-> maxSetSize]

ResponseBody(out) ==
    IF out.net = "getfail" THEN [xb |-> Garbage, err |-> Wrap(<<"Get">>, "ResponseBody")]
    ELSE IF out.net = "readfail" THEN [xb |-> Garbage, err |-> <<"ReadAll">>]
    ELSE [xb |-> out.body, err |-> NilErr]

\* --------------------------------------------------------------- operations
\* QueryResultTotal on a Search whose Total is total: the new Total and the error.
QueryResultTotalFirstWins(total, out) ==
    LET rb == ResponseBody(out)
        rc == ResultsCount(rb.xb)
    IN  IF rb.err # NilErr
        THEN [total |-> total,
              err |-> Wrap(rb.err, "QueryResultTotal could not get response body")]
        ELSE IF rc.err # NilErr
        THEN [total |-> rc.val,
              err |-> Wrap(rc.err, "QueryResultTotal could not extract count from response body")]
        ELSE [total |-> IF total # 0 THEN total ELSE rc.val, err |-> NilErr]

QueryResultTotal(total, out) ==
    LET rb == ResponseBody(out)
        rc == ResultsCount(rb.xb)
    IN  IF rb.err # NilErr
        THEN [total |-> total,
              err |-> Wrap(rb.err, "QueryResultTotal could not get response body")]
        ELSE IF rc.err # NilErr
        THEN [total |-> rc.val,
              err |-> Wrap(rc.err, "QueryResultTotal could not extract count from response body")]
        ELSE [total |-> rc.val, err |-> NilErr]

QueryResultSet(out) ==
    LET rb == ResponseBody(out)
        ri == ResultsSetIDs(rb.xb)
    IN  IF rb.err # NilErr
        THEN [set |-> [IDs |-> <<>>],
              err |-> Wrap(rb.err, "QueryResultSet could not get response body")]
        ELSE IF ri.err # NilErr
        THEN [set |-> [IDs |-> ri.val],
              err |-> Wrap(ri.err, "QueryResultTotal could not extract count from response body")]
        ELSE [set |-> [IDs |-> ri.val], err |-> NilErr]

PrependSet(sets, set) == <<set>> \o sets

ReplaceSets(sets, set) == <<set>>

AppendSet(sets, set) == Append(sets, set)

NoRet == [err |-> NilErr, set |-> [IDs |-> <<>>], n |-> 0]

\* ------------------------------------------------------------------ actions
Terms == {"heart"}

InitNoDefaults ==
    /\ Term \in Terms
    /\ BackDays = 0
    /\ Total = 0
    /\ MaxSetSize = defaultMaxSetSize
    /\ Sets = <<>>
    /\ pc = "idle" /\ c = 0 /\ i = 0
    /\ op = "NewSearch" /\ ret = NoRet
    /\ reqs = <<>> /\ resps = <<>>
    /\ calls = 0
    /\ countKnown = FALSE
    /\ Count = 0 /\ exited = FALSE
    /\ ResultCount = 0 /\ QueryKey = "" /\ WebEnv = ""

\* NewSearch(query)
Init ==
    /\ Term \in Terms
    /\ BackDays = defaultBackDays
    /\ Total = 0
    /\ MaxSetSize = defaultMaxSetSize
    /\ Sets = <<>>
    /\ pc = "idle" /\ c = 0 /\ i = 0
    /\ op = "NewSearch" /\ ret = NoRet
    /\ reqs = <<>> /\ resps = <<>>
    /\ calls = 0
    /\ countKnown = FALSE
    /\ Count = 0 /\ exited = FALSE
    /\ ResultCount = 0 /\ QueryKey = "" /\ WebEnv = ""

\* The caller sets the exported field before it runs the search
\* (ps.Result.MaxSetSize = 50).
SetMaxSetSize(s) ==
    /\ pc = "idle" /\ calls = 0
    /\ MaxSetSize' = s
    /\ op' = "SetMaxSetSize"
    /\ UNCHANGED <<BackDays, Term, Total, Sets, pc, c, i, ret, reqs, resps,
                   calls, countKnown>>
    /\ UNCHANGED legacy

\* ps.QueryResultTotal() called by the caller
CallQueryResultTotal(out) ==
    LET r == QueryResultTotal(Total, out) IN
    /\ pc = "idle" /\ calls < MaxCalls
    /\ op' = "QueryResultTotal"
    /\ reqs' = <<CountURL(BackDays, Term)>>
    /\ resps' = <<out>>
    /\ Total' = r.total
    /\ ret' = [NoRet EXCEPT !.err = r.err]
    /\ countKnown' = (countKnown \/ r.err = NilErr)
    /\ calls' = calls + 1
    /\ UNCHANGED <<BackDays, Term, MaxSetSize, Sets, pc, c, i>>
    /\ UNCHANGED legacy

CallQueryResultSetStores(setIndex, out) ==
    LET r == QueryResultSet(out) IN
    /\ pc = "idle" /\ calls < MaxCalls
    /\ op' = "QueryResultSet"
    /\ reqs' = <<SetURL(BackDays, Term, setIndex, MaxSetSize)>>
    /\ resps' = <<out>>
    /\ ret' = [NoRet EXCEPT !.err = r.err, !.set = r.set]
    /\ calls' = calls + 1
    /\ Sets' = IF r.err = NilErr THEN AppendSet(Sets, r.set) ELSE Sets
    /\ UNCHANGED <<BackDays, Term, Total, MaxSetSize, pc, c, i, countKnown>>
    /\ UNCHANGED legacy

\* ps.QueryResultSet(setIndex) called by the caller
CallQueryResultSet(setIndex, out) ==
    LET r == QueryResultSet(out) IN
    /\ pc = "idle" /\ calls < MaxCalls
    /\ op' = "QueryResultSet"
    /\ reqs' = <<SetURL(BackDays, Term, setIndex, MaxSetSize)>>
    /\ resps' = <<out>>
    /\ ret' = [NoRet EXCEPT !.err = r.err, !.set = r.set]
    /\ calls' = calls + 1
    /\ UNCHANGED <<BackDays, Term, Total, MaxSetSize, Sets, pc, c, i, countKnown>>
    /\ UNCHANGED legacy

\* ps.NumSets() called by the caller
CallNumSets ==
    /\ pc = "idle"
    /\ op' = "NumSets"
    /\ reqs' = <<>> /\ resps' = <<>>
    /\ ret' = [NoRet EXCEPT !.n = NumSets(Total, MaxSetSize)]
    /\ UNCHANGED <<BackDays, Term, Total, MaxSetSize, Sets, pc, c, i, calls, countKnown>>
    /\ UNCHANGED legacy

QueryCountIgnoresError(out) ==
    LET r == QueryResultTotal(Total, out)
        n == NumSets(r.total, MaxSetSize)
    IN
    /\ pc = "idle" /\ calls < MaxCalls
    /\ op' = "Query"
    /\ reqs' = <<CountURL(BackDays, Term)>>
    /\ resps' = <<out>>
    /\ Total' = r.total
    /\ countKnown' = (countKnown \/ r.err = NilErr)
    /\ calls' = calls + 1
    /\ ret' = [NoRet EXCEPT !.err = r.err]
    /\ c' = n
    /\ i' = 0
    /\ pc' = IF 0 < n THEN "loop" ELSE "idle"
    /\ UNCHANGED <<BackDays, Term, MaxSetSize, Sets>>
    /\ UNCHANGED legacy

\* ps.Query(), up to the loop: the count query and c := ps.NumSets()
QueryCount(out) ==
    LET r == QueryResultTotal(Total, out)
        n == NumSets(r.total, MaxSetSize)
    IN
    /\ pc = "idle" /\ calls < MaxCalls
    /\ op' = "Query"
    /\ reqs' = <<CountURL(BackDays, Term)>>
    /\ resps' = <<out>>
    /\ Total' = r.total
    /\ countKnown' = (countKnown \/ r.err = NilErr)
    /\ calls' = calls + 1
    /\ ret' = [NoRet EXCEPT !.err = r.err]
    /\ IF r.err # NilErr
       THEN UNCHANGED <<pc, c, i>>
       ELSE /\ c' = n
            /\ i' = 0
            /\ pc' = IF 0 < n THEN "loop" ELSE "idle"
    /\ UNCHANGED <<BackDays, Term, MaxSetSize, Sets>>
    /\ UNCHANGED legacy

QueryLoopNoAdvance(out) ==
    LET r == QueryResultSet(out) IN
    /\ pc = "loop"
    /\ reqs' = Append(reqs, SetURL(BackDays, Term, i, MaxSetSize))
    /\ resps' = Append(resps, out)
    /\ IF r.err # NilErr
       THEN /\ ret' = [NoRet EXCEPT !.err = r.err]
            /\ pc' = "idle"
            /\ UNCHANGED <<Sets, i>>
       ELSE /\ Sets' = AppendSet(Sets, r.set)
            /\ i' = i
            /\ pc' = IF i < c THEN "loop" ELSE "idle"
            /\ UNCHANGED ret
    /\ UNCHANGED <<BackDays, Term, Total, MaxSetSize, c, op, calls, countKnown>>
    /\ UNCHANGED legacy

\* ps.Query(), one turn of the loop: QueryResultSet(i), append, i++
QueryLoop(out) ==
    LET r == QueryResultSet(out) IN
    /\ pc = "loop"
    /\ reqs' = Append(reqs, SetURL(BackDays, Term, i, MaxSetSize))
    /\ resps' = Append(resps, out)
    /\ IF r.err # NilErr
       THEN /\ ret' = [NoRet EXCEPT !.err = r.err]
            /\ pc' = "idle"
            /\ UNCHANGED <<Sets, i>>
       ELSE /\ Sets' = AppendSet(Sets, r.set)
            /\ i' = i + 1
            /\ pc' = IF i + 1 < c THEN "loop" ELSE "idle"
            /\ UNCHANGED ret
    /\ UNCHANGED <<BackDays, Term, Total, MaxSetSize, c, op, calls, countKnown>>
    /\ UNCHANGED legacy

Next ==
    \/ \E s \in 1..MaxPageSize : SetMaxSetSize(s)
    \/ \E out \in Outcomes(CountBodies) : CallQueryResultTotal(out)
    \/ \E k \in 0..MaxTotal, out \in Outcomes(PageBodies) : CallQueryResultSet(k, out)
    \/ CallNumSets
    \/ \E out \in Outcomes(CountBodies) : QueryCount(out)
    \/ \E out \in Outcomes(PageBodies) : QueryLoop(out)

Spec == Init /\ [][Next]_vars

\* A caller that only runs Query.  Query is synchronous and every fetch
\* returns a body or a failure (the GET, then ReadAll), so a turn of the
\* loop that can be taken is taken.
NextQuery ==
    \/ \E s \in 1..MaxPageSize : SetMaxSetSize(s)
    \/ \E out \in Outcomes(CountBodies) : QueryCount(out)
    \/ \E out \in Outcomes(PageBodies) : QueryLoop(out)

SpecQuery ==
    /\ Init
    /\ [][NextQuery]_vars
    /\ WF_vars(\E out \in Outcomes(PageBodies) : QueryLoop(out))

\* NumSets on its own: the Search the tests build, with Result.Total and
\* Result.MaxSetSize assigned directly, and ps.NumSets() called on it.
NumSetsCases ==
    ((0..MaxFnTotal) \X (1..MaxFnPageSize))
      \cup {<<3000, 1000>>, <<2091, 1000>>, <<2091, 50>>, <<1000, 1000>>, <<1001, 1000>>}

InitNumSets ==
    /\ Term \in Terms
    /\ BackDays = defaultBackDays
    /\ \E tc \in NumSetsCases : Total = tc[1] /\ MaxSetSize = tc[2]
    /\ Sets = <<>>
    /\ pc = "idle" /\ c = 0 /\ i = 0
    /\ op = "NewSearch" /\ ret = NoRet
    /\ reqs = <<>> /\ resps = <<>>
    /\ calls = 0
    /\ countKnown = FALSE
    /\ Count = 0 /\ exited = FALSE
    /\ ResultCount = 0 /\ QueryKey = "" /\ WebEnv = ""

NextNumSets == CallNumSets

SpecNumSets == InitNumSets /\ [][NextNumSets]_vars

\* ------------------------------------------------------- pubmed.go: SetCount
\* json Decode into struct{Result map[string]string}: every value of
\* esearchresult has to be a JSON string, so an idlist array is a type error.
DecodeMap(b) ==
    IF b.shape # "ok" \/ (b.hasResult /\ b.hasIDList)
    THEN [err |-> <<"json">>, count |-> <<>>]
    ELSE [err |-> NilErr,
          count |-> IF b.hasResult /\ b.hasCount THEN b.count ELSE <<>>]

\* SetCount on a Search whose Count is count: log.Fatalln ends the process
\* where the GET, the Decode or Atoi fails; otherwise Count is set and nil
\* returned.
SetCount(count, out) ==
    LET d == DecodeMap(out.body)
        a == Atoi(d.count)
    IN  IF out.net # "ok" \/ d.err # NilErr \/ a.err # NilErr
        THEN [count |-> count, fatal |-> TRUE]
        ELSE [count |-> a.val, fatal |-> FALSE]

SetCountBackDays == {defaultBackDays, 100}

SetCountBodies == CountBodies \cup {IDListBody(l) : l \in IDLists}

\* NewSearch() of pubmed.go: &Search{}
InitSetCount ==
    /\ Term = ""
    /\ BackDays = 0
    /\ Total = 0
    /\ MaxSetSize = defaultMaxSetSize
    /\ Sets = <<>>
    /\ pc = "idle" /\ c = 0 /\ i = 0
    /\ op = "NewSearch" /\ ret = NoRet
    /\ reqs = <<>> /\ resps = <<>>
    /\ calls = 0
    /\ countKnown = FALSE
    /\ Count = 0 /\ exited = FALSE
    /\ ResultCount = 0 /\ QueryKey = "" /\ WebEnv = ""

\* ps.Term = searchTerm; ps.BackDays = 100
SetTermBackDays(t, d) ==
    /\ ~ exited /\ calls = 0
    /\ Term' = t
    /\ BackDays' = d
    /\ UNCHANGED <<Total, MaxSetSize, Sets, pc, c, i, op, ret, reqs, resps,
                   calls, countKnown, Count, exited>>
    /\ UNCHANGED stored

\* ps.SetCount() called by the caller
CallSetCount(out) ==
    LET r == SetCount(Count, out) IN
    /\ ~ exited /\ calls < MaxCalls
    /\ op' = "SetCount"
    /\ reqs' = <<CountURL(BackDays, Term)>>
    /\ resps' = <<out>>
    /\ Count' = r.count
    /\ exited' = r.fatal
    /\ ret' = NoRet
    /\ calls' = calls + 1
    /\ UNCHANGED <<BackDays, Term, Total, MaxSetSize, Sets, pc, c, i, countKnown>>
    /\ UNCHANGED stored

NextSetCount ==
    \/ \E t \in Terms, d \in SetCountBackDays : SetTermBackDays(t, d)
    \/ \E out \in Outcomes(SetCountBodies) : CallSetCount(out)

SpecSetCount == InitSetCount /\ [][NextSetCount]_vars

\* ------------------------------------------------- the decoders on their own
\* ResultsCount and ResultsSetIDs applied to a response body, as the tests
\* apply them to the recorded responses.
IDs == {"a", "b"}

AllIDLists == UNION {[1..n -> IDs] : n \in 0..MaxIDs}

DecodeBodies ==
    CountBodies
      \cup {CountBody(Itoa(n)) : n \in (0..MaxFnTotal) \cup {2091}}
      \cup {IDListBody(l) : l \in AllIDLists}

InitDecode ==
    /\ Term \in Terms
    /\ BackDays = defaultBackDays
    /\ Total = 0
    /\ MaxSetSize = defaultMaxSetSize
    /\ Sets = <<>>
    /\ pc = "idle" /\ c = 0 /\ i = 0
    /\ op = "NewSearch" /\ ret = NoRet
    /\ reqs = <<>>
    /\ \E b \in DecodeBodies : resps = <<[net |-> "ok", body |-> b]>>
    /\ calls = 0
    /\ countKnown = FALSE
    /\ Count = 0 /\ exited = FALSE
    /\ ResultCount = 0 /\ QueryKey = "" /\ WebEnv = ""

CallResultsCount ==
    LET r == ResultsCount(resps[1].body) IN
    /\ op' = "ResultsCount"
    /\ ret' = [NoRet EXCEPT !.err = r.err, !.n = r.val]
    /\ UNCHANGED <<BackDays, Term, Total, MaxSetSize, Sets, pc, c, i, reqs, resps,
                   calls, countKnown, Count, exited>>
    /\ UNCHANGED stored

CallResultsSetIDs ==
    LET r == ResultsSetIDs(resps[1].body) IN
    /\ op' = "ResultsSetIDs"
    /\ ret' = [NoRet EXCEPT !.err = r.err, !.set = [IDs |-> r.val]]
    /\ UNCHANGED <<BackDays, Term, Total, MaxSetSize, Sets, pc, c, i, reqs, resps,
                   calls, countKnown, Count, exited>>
    /\ UNCHANGED stored

NextDecode == CallResultsCount \/ CallResultsSetIDs

SpecDecode == InitDecode /\ [][NextDecode]_vars

\* ------------------------------------------------- main.go: the batch loop
\* The Search after p.Search() returned nil: ResultCount is the number of
\* articles found, and the loop is at i := 0.
InitMain ==
    /\ Term \in Terms
    /\ BackDays = defaultBackDays
    /\ Total = 0
    /\ MaxSetSize = defaultMaxSetSize
    /\ Sets = <<>>
    /\ c = 0 /\ i = 0
    /\ op = "main" /\ ret = NoRet
    /\ reqs = <<>> /\ resps = <<>>
    /\ calls = 0
    /\ countKnown = FALSE
    /\ Count = 0 /\ exited = FALSE
    /\ ResultCount \in 0..MaxResultCount
    /\ pc = IF 0 < ResultCount THEN "batch" ELSE "done"
    /\ QueryKey = "" /\ WebEnv = ""

\* One turn of for i := 0; i < p.ResultCount; i++ { ... }: p.Articles(i,
\* batchSize), whose error is printed and no more; e.Batch, whose error ends
\* the process (log.Fatalln); i += batchSize at the end of the body and the
\* i++ of the for statement.
Batch(articlesErr, batchErr) ==
    /\ pc = "batch" /\ ~ exited
    /\ reqs' = Append(reqs, [retstart |-> i, retmax |-> batchSize])
    /\ resps' = Append(resps, [articlesErr |-> articlesErr, batchErr |-> batchErr])
    /\ IF batchErr
       THEN /\ exited' = TRUE
            /\ UNCHANGED <<i, pc>>
       ELSE /\ i' = (i + batchSize) + 1
            /\ pc' = IF (i + batchSize) + 1 < ResultCount THEN "batch" ELSE "done"
            /\ UNCHANGED exited
    /\ UNCHANGED <<BackDays, Term, Total, MaxSetSize, Sets, c, op, ret, calls,
                   countKnown, Count>>
    /\ UNCHANGED stored

NextMain == \E articlesErr \in BOOLEAN, batchErr \in BOOLEAN : Batch(articlesErr, batchErr)

SpecMain == InitMain /\ [][NextMain]_vars

\* ------------------------------------------------------------ StoreResults
\* A response body of the search that the server keeps: the count and the
\* querykey and webenv under which the server holds the result ("" where the
\* key is absent).
StoreBody(shape, hasResult, hasCount, count, querykey, webenv) ==
    [shape |-> shape, hasResult |-> hasResult, hasCount |-> hasCount,
     count |-> count, querykey |-> querykey, webenv |-> webenv]

QueryKeys == {"", "1"}

WebEnvs == {"", "MCID"}

StoreBodies ==
    {StoreBody("garbage", FALSE, FALSE, <<>>, "", ""),
     StoreBody("mismatch", TRUE, FALSE, <<>>, "", ""),
     StoreBody("ok", FALSE, FALSE, <<>>, "", "")}
      \cup {StoreBody("ok", TRUE, FALSE, <<>>, k, w) : k \in QueryKeys, w \in WebEnvs}
      \cup {StoreBody("ok", TRUE, TRUE, s, k, w) :
                s \in CountFields, k \in QueryKeys, w \in WebEnvs}

\* SearchURL + reldate + term
StoreURL(backDays, term) ==
    [usehistory |-> "y", reldate |-> backDays, term |-> term]

ResponseGET(out) ==
    IF out.net = "getfail" THEN [xb |-> out.body, err |-> Wrap(<<"Get">>, "ResponseGET")]
    ELSE IF out.net = "readfail" THEN [xb |-> out.body, err |-> <<"ReadAll">>]
    ELSE [xb |-> out.body, err |-> NilErr]

\* json.Unmarshal into struct{Result struct{Count, QueryKey, WebEnv string}}
UnmarshalStore(b) ==
    IF b.shape # "ok"
    THEN [err |-> <<"json">>, Count |-> <<>>, QueryKey |-> "", WebEnv |-> ""]
    ELSE [err |-> NilErr,
          Count |-> IF b.hasResult /\ b.hasCount THEN b.count ELSE <<>>,
          QueryKey |-> IF b.hasResult THEN b.querykey ELSE "",
          WebEnv |-> IF b.hasResult THEN b.webenv ELSE ""]

StoreResultsKeysFirst(ps, out) ==
    LET rb == ResponseGET(out)
        r == UnmarshalStore(rb.xb)
        a == Atoi(r.Count)
    IN  IF rb.err # NilErr
        THEN [ps EXCEPT !.err = Wrap(rb.err, "StoreResults")]
        ELSE IF r.err # NilErr
        THEN [ps EXCEPT !.err = Wrap(r.err, "StoreResults, Unmarshal")]
        ELSE IF a.err # NilErr
        THEN [ps EXCEPT !.QueryKey = r.QueryKey, !.WebEnv = r.WebEnv,
                        !.err = Wrap(a.err, "StoreResults, Atoi")]
        ELSE [ResultCount |-> a.val, QueryKey |-> r.QueryKey, WebEnv |-> r.WebEnv,
              err |-> NilErr]

\* StoreResults on a Search whose fields are ps: the fields after the call
\* and the error returned.
StoreResults(ps, out) ==
    LET rb == ResponseGET(out)
        r == UnmarshalStore(rb.xb)
        a == Atoi(r.Count)
    IN  IF rb.err # NilErr
        THEN [ps EXCEPT !.err = Wrap(rb.err, "StoreResults")]
        ELSE IF r.err # NilErr
        THEN [ps EXCEPT !.err = Wrap(r.err, "StoreResults, Unmarshal")]
        ELSE IF a.err # NilErr
        THEN [ps EXCEPT !.err = Wrap(a.err, "StoreResults, Atoi")]
        ELSE [ResultCount |-> a.val, QueryKey |-> r.QueryKey, WebEnv |-> r.WebEnv,
              err |-> NilErr]

\* NewSearch(query) of this revision: BackDays and Term set, the rest zero.
InitStore ==
    /\ Term \in Terms
    /\ BackDays = defaultBackDays
    /\ Total = 0
    /\ MaxSetSize = defaultMaxSetSize
    /\ Sets = <<>>
    /\ pc = "idle" /\ c = 0 /\ i = 0
    /\ op = "NewSearch" /\ ret = NoRet
    /\ reqs = <<>> /\ resps = <<>>
    /\ calls = 0
    /\ countKnown = FALSE
    /\ Count = 0 /\ exited = FALSE
    /\ ResultCount = 0 /\ QueryKey = "" /\ WebEnv = ""

\* ps.StoreResults() called by the caller
CallStoreResults(out) ==
    LET r == StoreResults([ResultCount |-> ResultCount, QueryKey |-> QueryKey,
                           WebEnv |-> WebEnv, err |-> NilErr], out)
    IN
    /\ pc = "idle" /\ calls < MaxCalls
    /\ op' = "StoreResults"
    /\ reqs' = <<StoreURL(BackDays, Term)>>
    /\ resps' = <<out>>
    /\ ResultCount' = r.ResultCount
    /\ QueryKey' = r.QueryKey
    /\ WebEnv' = r.WebEnv
    /\ ret' = [NoRet EXCEPT !.err = r.err]
    /\ calls' = calls + 1
    /\ UNCHANGED <<BackDays, Term, Total, MaxSetSize, Sets, pc, c, i, countKnown,
                   Count, exited>>

NextStore == \E out \in Outcomes(StoreBodies) : CallStoreResults(out)

SpecStore == InitStore /\ [][NextStore]_vars

\* ------------------------------------------------------------------- claims
\* Query has returned to its caller.
QueryReturned == op = "Query" /\ pc = "idle"

QueryDone == QueryReturned /\ ret.err = NilErr

\* The count query of the current Query run succeeded.
QueryCounted == op = "Query" /\ (Len(reqs) > 1 \/ (pc = "idle" /\ ret.err = NilErr))

\* C1: for a non-negative total and a positive page size NumSets returns
\* ceil(total / pageSize): the least n with n * pageSize >= total, which is 0
\* for total 0, total / pageSize on an exact multiple and the floor plus one
\* otherwise; it is a function of Total and MaxSetSize alone.
C1_NumSetsIsCeil ==
    (op = "NumSets" /\ Total >= 0 /\ MaxSetSize > 0) =>
        /\ ret.n * MaxSetSize >= Total
        /\ (ret.n - 1) * MaxSetSize < Total
        /\ (Total = 0 => ret.n = 0)
        /\ (Total % MaxSetSize = 0 => ret.n * MaxSetSize = Total)
        /\ (Total % MaxSetSize # 0 => ret.n = (Total \div MaxSetSize) + 1)

C1_Witness ==
    op = "NumSets" /\ Total = 3000 /\ MaxSetSize = 1000 /\ ret.n = 3

\* C2: in a Query run the first request is the count request and the j-th
\* request after it is the page request with start offset (j-1) * MaxSetSize
\* and page size MaxSetSize; when the run succeeds the page requests are
\* exactly those of the indices 0 .. ceil(Total / MaxSetSize) - 1.
C2_RequestOrder ==
    (op = "Query") =>
        /\ Len(reqs) >= 1
        /\ reqs[1] = [rettype |-> "count", reldate |-> BackDays, term |-> Term,
                       retstart |-> 0, retmax |-> 0]
        /\ \A j \in 2..Len(reqs) :
               reqs[j] = [rettype |-> "", reldate |-> BackDays, term |-> Term,
                          retstart |-> (j - 2) * MaxSetSize, retmax |-> MaxSetSize]
        /\ QueryDone =>
               LET n == Len(reqs) - 1
               IN  IF Total <= 0 THEN n = 0
                   ELSE n * MaxSetSize >= Total /\ (n - 1) * MaxSetSize < Total

C2_Witness ==
    QueryDone /\ Total = 3 /\ MaxSetSize = 2 /\ Len(reqs) = 3 /\ reqs[3].retstart = 2

\* C3: when page query k of a Query run fails, Query returns the failure,
\* Sets holds exactly the k pages retrieved for the indices 0 .. k-1, in
\* order, and the failed request is the last one sent.
C3_AbortLeavesRetrievedPages ==
    (QueryReturned /\ ret.err # NilErr /\ Len(reqs) >= 2) =>
        LET k == Len(reqs) - 2
        IN  /\ Len(Sets) = k
            /\ \A j \in 1..k : Sets[j].IDs = resps[j + 1].body.idlist

\* C4: after every successful return of Query, a second or later one on the
\* same Search included, the number of accumulated pages is the page count.
C4_SetsMatchNumSets ==
    (QueryDone /\ Total >= 0) => Len(Sets) = NumSets(Total, MaxSetSize)

\* C5: no page request is sent before a count query on the Search has succeeded.
C5_NoPageBeforeCount ==
    (\E j \in 1..Len(reqs) : reqs[j].rettype # "count") => countKnown

\* C6: when the count query of a Query run reports total 0, Query sends the
\* count request and no page request, returns nil, and Sets is empty.
C6_ZeroTotalEmpty ==
    (QueryReturned /\ QueryCounted /\ Total = 0) =>
        /\ Len(reqs) = 1
        /\ ret.err = NilErr
        /\ Sets = <<>>

\* The identifiers of a list of sets, or of the bodies of a list of answers,
\* one after the other.
RECURSIVE ConcatIDs(_)
ConcatIDs(sets) ==
    IF sets = <<>> THEN <<>> ELSE Head(sets).IDs \o ConcatIDs(Tail(sets))

RECURSIVE ConcatReturned(_)
ConcatReturned(outs) ==
    IF outs = <<>> THEN <<>> ELSE Head(outs).body.idlist \o ConcatReturned(Tail(outs))

\* Query was the first operation called on the Search.
FreshQuery == op = "Query" /\ calls = 1

\* C7: after a successful Query on a fresh Search, Sets[j] is the identifier
\* list the service returned to the j-th page request, for every page, so
\* the identifiers of all pages together are those returned, in order.
C7_SetsAreReturnedLists ==
    (FreshQuery /\ QueryDone) =>
        /\ Len(Sets) = Len(resps) - 1
        /\ \A j \in 1..Len(Sets) : Sets[j].IDs = resps[j + 1].body.idlist
        /\ ConcatIDs(Sets) = ConcatReturned(Tail(resps))
        /\ (Total >= 0 => Len(Sets) * MaxSetSize >= Total)

C7_Witness ==
    FreshQuery /\ QueryDone /\ Len(Sets) = 3
      /\ Len(Sets[1].IDs) = 2 /\ Len(Sets[2].IDs) = 0 /\ Len(ConcatIDs(Sets)) = 4

\* A count field that is the decimal numeral of a non-negative integer.
NonNegativeNumeral(s) ==
    LET body == IF s # <<>> /\ Head(s) = "+" THEN Tail(s) ELSE s
    IN  body # <<>> /\ \A k \in 1..Len(body) : body[k] \in Digits

\* C8: the count query fails when the count field is absent or is not the
\* numeral of a non-negative integer, so Total is never negative.
C8_CountNeverNegative ==
    /\ Total >= 0
    /\ (op = "QueryResultTotal" /\ resps[1].net = "ok"
          /\ ~ (resps[1].body.shape = "ok" /\ resps[1].body.hasResult
                  /\ resps[1].body.hasCount /\ NonNegativeNumeral(resps[1].body.count)))
        => ret.err # NilErr

\* C9: a decoded page is a success only when the body is well-formed and
\* holds the wrapper, the result and the identifier list.
C9_IDListRequired ==
    (op = "QueryResultSet" /\ resps[1].net = "ok" /\ ret.err = NilErr) =>
        /\ resps[1].body.shape = "ok"
        /\ resps[1].body.hasResult
        /\ resps[1].body.hasIDList

\* The operation an error message names as its origin, and the kind of
\* failure it reports.
ErrStage(err) ==
    CASE Head(err) = "QueryResultTotal could not get response body" -> "count"
      [] Head(err) = "QueryResultTotal could not extract count from response body" -> "count"
      [] Head(err) = "QueryResultSet could not get response body" -> "page"
      [] OTHER -> "unknown"

ErrKind(err) ==
    CASE Head(err) = "QueryResultTotal could not get response body" -> "transport"
      [] Head(err) = "QueryResultTotal could not extract count from response body" -> "decode"
      [] Head(err) = "QueryResultSet could not get response body" -> "transport"
      [] OTHER -> "unknown"

\* C10: an error names the stage that failed and the kind of the failure:
\* the stage of the last request sent, transport when the fetch failed and
\* decode when the body could not be decoded.
C10_ErrorNamesStageAndKind ==
    (op \in {"Query", "QueryResultTotal", "QueryResultSet"} /\ pc = "idle" /\ ret.err # NilErr) =>
        LET last == Len(reqs)
        IN  /\ ErrStage(ret.err) = (IF reqs[last].rettype = "count" THEN "count" ELSE "page")
            /\ ErrKind(ret.err) = (IF resps[last].net = "ok" THEN "decode" ELSE "transport")

\* C11: no operation ends the process: after a transport or a decode failure
\* the count query has returned an error value and the program goes on.
C11_NoFatalExit ==
    /\ ~ exited
    /\ (op = "SetCount" /\ resps[1].net # "ok") => ret.err # NilErr
    /\ (op = "SetCount" /\ resps[1].net = "ok" /\ resps[1].body.shape # "ok") => ret.err # NilErr

\* A step in which the caller calls QueryResultTotal, and one in which a
\* count query is made (by QueryResultTotal or as the first step of Query).
QueryResultTotalStep == calls' = calls + 1 /\ op' = "QueryResultTotal"

CountQueryStep == calls' = calls + 1 /\ op' \in {"QueryResultTotal", "Query"}

C20_FailedCountKeepsTotal ==
    [][/\ (CountQueryStep /\ ret'.err # NilErr) => Total' = Total
       /\ Total' # Total => (CountQueryStep /\ ret'.err = NilErr)]_vars

\* C13: as long as no count query has succeeded on a Search made by
\* NewSearch, Total is 0 and NumSets() returns 0, whatever count queries
\* failed before.
C13_NumSetsZeroBeforeCount ==
    ~ countKnown =>
        /\ Total = 0
        /\ NumSets(Total, MaxSetSize) = 0
        /\ op = "NumSets" => ret.n = 0

C13_Witness ==
    ~ countKnown /\ calls = 2 /\ op = "QueryResultTotal" /\ ret.err # NilErr
      /\ resps[1].net = "ok" /\ NumSets(Total, MaxSetSize) = 0

\* The body handed to the decoder.
DecodedBody == resps[1].body

HasIDList(b) == b.shape = "ok" /\ b.hasResult /\ b.hasIDList

\* C14: on a body that holds an identifier list ResultsSetIDs returns nil
\* and the identifiers of the list, as many and in the same order; an empty
\* list gives no identifiers and no error.
C14_IDsAsInBody ==
    (op = "ResultsSetIDs" /\ HasIDList(DecodedBody)) =>
        /\ ret.err = NilErr
        /\ Len(ret.set.IDs) = Len(DecodedBody.idlist)
        /\ \A k \in 1..Len(DecodedBody.idlist) : ret.set.IDs[k] = DecodedBody.idlist[k]

C14_Witness ==
    op = "ResultsSetIDs" /\ HasIDList(DecodedBody) /\ ret.err = NilErr
      /\ ret.set.IDs = <<"b", "a", "a">>

\* C15: on a body whose count field is the decimal numeral of n >= 0
\* ResultsCount returns n and nil, for n = 0 too.
C15_CountOfNumeral ==
    \A n \in (0..MaxFnTotal) \cup {2091} :
        (op = "ResultsCount" /\ DecodedBody = CountBody(Itoa(n))) =>
            (ret.err = NilErr /\ ret.n = n)

C15_Witness ==
    op = "ResultsCount" /\ DecodedBody = CountBody(<<"0">>)
      /\ ret.err = NilErr /\ ret.n = 0

\* C16: whenever ResultsCount returns an error the count it returns is 0.
C16_ZeroCountOnError ==
    (op = "ResultsCount" /\ ret.err # NilErr) => ret.n = 0

C16_Witness ==
    op = "ResultsCount" /\ DecodedBody = NoWrapper /\ ret.err # NilErr /\ ret.n = 0

\* C17: the Search NewSearch returns has BackDays 7, MaxSetSize 1000, the
\* term it was given, Total 0 and no Sets.
C17_NewSearchDefaults ==
    op = "NewSearch" =>
        /\ BackDays = 7
        /\ MaxSetSize = 1000
        /\ Term \in Terms
        /\ Total = 0
        /\ Sets = <<>>

C17_Witness ==
    op = "NewSearch" /\ calls = 0 /\ BackDays = 7 /\ MaxSetSize = 1000
      /\ Term = "heart" /\ Total = 0 /\ Len(Sets) = 0

\* The first step of Query: the count query.
QueryCountStep == calls' = calls + 1 /\ op' = "Query"

\* C18: when the count query of Query fails, Query returns that failure at
\* once: one count request was sent and no page request, the run is over,
\* and Sets is as it was.
C18_CountFailureEndsQuery ==
    [][/\ (QueryCountStep /\ resps'[1].net # "ok") => ret'.err # NilErr
       /\ (QueryCountStep /\ ret'.err # NilErr) =>
             /\ pc' = "idle"
             /\ Len(reqs') = 1
             /\ reqs'[1].rettype = "count"
             /\ Sets' = Sets]_vars

C18_Witness ==
    QueryReturned /\ calls = 2 /\ ret.err # NilErr /\ Len(reqs) = 1
      /\ resps[1].net = "getfail" /\ Total = 3 /\ Len(Sets) = 3

\* C19: Sets only grows: every step keeps the sets there are, unchanged and
\* in place; a set is added only by Query, after its count query succeeded,
\* one at a time, and the set added is the answer to the request at offset
\* i * MaxSetSize, i going up by one.
C19_SetsOnlyGrow ==
    [][/\ Len(Sets') >= Len(Sets)
       /\ SubSeq(Sets', 1, Len(Sets)) = Sets
       /\ Sets' # Sets =>
             /\ countKnown
             /\ op = "Query" /\ op' = "Query"
             /\ Len(Sets') = Len(Sets) + 1
             /\ Len(reqs') = i + 2
             /\ reqs'[Len(reqs')].retstart = i * MaxSetSize
             /\ Sets'[Len(Sets')].IDs = resps'[Len(resps')].body.idlist
             /\ i' = i + 1]_vars

C19_Witness ==
    QueryDone /\ calls = 2 /\ Len(Sets) = 6 /\ i = 3

\* A step in which the caller calls QueryResultSet directly.
QueryResultSetStep == calls' = calls + 1 /\ op' = "QueryResultSet"

\* C21: QueryResultSet called directly, whether it returns a set or an
\* error, leaves the Search as it was: Total, MaxSetSize, Term, BackDays and
\* Sets are the same after the call as before; Sets changes only in a turn
\* of the loop of Query.
C21_QueryResultSetKeepsSearch ==
    [][/\ QueryResultSetStep =>
             /\ Total' = Total
             /\ MaxSetSize' = MaxSetSize
             /\ Term' = Term
             /\ BackDays' = BackDays
             /\ Sets' = Sets
       /\ Sets' # Sets => (pc = "loop" /\ op' = "Query")]_vars

C21_Witness ==
    op = "QueryResultSet" /\ calls = 2 /\ ret.err = NilErr
      /\ ret.set.IDs = <<"b", "a">> /\ Total = 3 /\ Len(Sets) = 2
      /\ reqs[1].retstart = 2

\* The indices that the k-th batch request covers: [retstart, retstart + retmax).
BatchIndices(k) == reqs[k].retstart .. (reqs[k].retstart + reqs[k].retmax - 1)

\* C22: the batch loop of main requests the batches at offsets 0, batchSize,
\* 2 * batchSize, ...: the k-th request starts at (k - 1) * batchSize, and
\* when the loop is over every index in [0, ResultCount) lies in exactly one
\* requested batch [i, i + batchSize).
C22_BatchesPartitionResults ==
    /\ \A k \in 1..Len(reqs) : reqs[k].retstart = (k - 1) * batchSize
    /\ pc = "done" =>
          \A n \in 0..(ResultCount - 1) :
              Cardinality({k \in 1..Len(reqs) : n \in BatchIndices(k)}) = 1

\* A step in which the caller calls StoreResults.
StoreResultsStep == calls' = calls + 1 /\ op' = "StoreResults"

\* Count fields that are not numerals.
Unparseable == {<<>>, <<"x">>, <<"1", "x">>, <<"-">>}

\* C23: StoreResults updates the Search all at once.  A fetch failure, a
\* malformed payload and an unparseable count each make it return an error;
\* when it returns an error ResultCount, QueryKey and WebEnv are as they
\* were; when it returns nil all three are those of the one response.
C23_StoreResultsAllOrNothing ==
    [][StoreResultsStep =>
          /\ (\/ resps'[1].net # "ok"
              \/ resps'[1].body.shape # "ok"
              \/ ~ (resps'[1].body.hasResult /\ resps'[1].body.hasCount)
              \/ resps'[1].body.count \in Unparseable) => ret'.err # NilErr
          /\ ret'.err # NilErr =>
                /\ ResultCount' = ResultCount
                /\ QueryKey' = QueryKey
                /\ WebEnv' = WebEnv
          /\ ret'.err = NilErr =>
                /\ resps'[1].net = "ok"
                /\ QueryKey' = resps'[1].body.querykey
                /\ WebEnv' = resps'[1].body.webenv
                /\ \A n \in 0..MaxTotal :
                      resps'[1].body.count = Itoa(n) => ResultCount' = n]_vars

C23_Witness ==
    op = "StoreResults" /\ calls = 2 /\ ret.err # NilErr
      /\ resps[1].net = "ok" /\ resps[1].body.count = <<"x">>
      /\ resps[1].body.querykey = "" /\ resps[1].body.webenv = ""
      /\ ResultCount = 3 /\ QueryKey = "1" /\ WebEnv = "MCID"

\* C24: with every fetch returning, Query ends: a Query in its loop gets
\* back to its caller.  For a Total >= 0 and a MaxSetSize > 0 it has sent at
\* most 1 + ceil(Total / MaxSetSize) requests (one count request and, for the
\* k-th set request, Total > (k - 1) * MaxSetSize), and the number of sets c
\* is that of the Total counted before the loop and stays as it is while the
\* loop runs.
C24_QueryTerminates ==
    /\ [](pc = "loop" => (op = "Query" /\ Total >= 0 /\ MaxSetSize > 0 /\ i < c))
    /\ []((op = "Query" /\ Total >= 0 /\ MaxSetSize > 0) =>
             /\ Len(reqs) >= 1
             /\ Len(reqs) > 1 => Total > (Len(reqs) - 2) * MaxSetSize)
    /\ [][pc = "loop" => (c' = c /\ Total' = Total /\ MaxSetSize' = MaxSetSize)]_vars
    /\ (pc = "loop") ~> (pc = "idle")

C24_Witness ==
    QueryDone /\ Total = 3 /\ MaxSetSize = 2 /\ c = 2 /\ i = 2 /\ Len(reqs) = 3

====
